---------------------------- MODULE Spec2Model ----------------------------
(***************************************************************************)
(* Model of Voip_0.0.6.py: a transmit thread (voip_service) that captures, *)
(* conditions, quantizes, packetizes and sends audio over UDP, and a       *)
(* receive thread (voip_receiver) that reads datagrams from the bound UDP  *)
(* port, strips the header and writes the rest to the playback stream.     *)
(*                                                                         *)
(* Bytes are integers 0..255, byte strings are sequences of bytes, audio   *)
(* frames are sequences of numbers.  The frame length and max_udp_size are *)
(* scaled down (FrameLen, MaxUdpSizes); the header literal is kept.        *)
(***************************************************************************)
EXTENDS Integers, Sequences, FiniteSets, TLC

\* ------------------------------------------------------------------ bounds
\* Samples per captured frame (8192 in the source, scaled down).
FrameLen == 1
\* Datagrams the receiver's socket buffer holds; a datagram arriving at a
\* full buffer is dropped by the kernel.
MaxInbox == 1

\* --------------------------------------------------------- data domains
\* Values transmit_stream.read can deliver for one sample.
RawVals == {0, 3}
\* Values a sample can have after the band-pass filter (floats in the source).
FilteredVals == {0, 1}
\* b'RTP_HEADER' as byte values.
RTP_HEADER == <<82, 84, 80, 95, 72, 69, 65, 68, 69, 82>>
HeaderLen == Len(RTP_HEADER)

\* Datagrams another host can send to the receiver's port: one shorter than
\* the header, one longer than every max_udp_size explored.
PeerDatagrams ==
    {<<1, 2, 3>>, RTP_HEADER \o [i \in 1..(2 * FrameLen + 2) |-> 7]}

\* CONFIG['max_udp_size'] values explored with both threads running: one that
\* splits every packet, one that holds a whole packet in one datagram.
MaxUdpSizes == {HeaderLen + 1, HeaderLen + 2 * FrameLen}
\* ... and with the transmit thread alone: every size from the header width
\* to one byte more than the longest packet.
MaxUdpSizesTx == HeaderLen .. (HeaderLen + 2 * FrameLen + 1)

\* What a cast of NaN to int16 can produce, depending on the build.
NaNCasts == {0, -32768}

VARIABLES
    CONFIG,          \* the CONFIG dict (the keys the pipeline reads)
    nan_cast,        \* result of astype(np.int16) on NaN on this build
    wide_cast,       \* what astype(np.int16) does with a value outside int16
    txpc,            \* position of voip_service
    voice_data,      \* voip_service local
    compressed_data, \* voip_service local (the payload handed to packetize_rtp)
    rtp_packet,      \* voip_service local
    udp_chunks,      \* voip_service local
    chunk_i,         \* index of the next chunk in transmit_voice's for loop
    cap_error,       \* capture_analog_voice took its except branch this pass
    last_header,     \* header of the packet built by the previous loop pass
    hook_log,        \* "Applying ..." lines the optional stages printed this pass
    inbox,           \* datagrams queued at the socket bound to udp_port
    rxpc,            \* position of voip_receiver
    data,            \* voip_receiver local
    audio_data,      \* voip_receiver local
    rx_tag,          \* origin of the datagram held in data
    wrote,           \* outcome of play_audio's write for the last datagram received
    played           \* byte strings written for the current run of in-order chunks

vars == <<CONFIG, nan_cast, wide_cast, txpc, voice_data, compressed_data,
          rtp_packet, udp_chunks, chunk_i, cap_error, last_header, hook_log,
          inbox, rxpc, data, audio_data, rx_tag, wrote, played>>

txvars == <<txpc, voice_data, compressed_data, rtp_packet, udp_chunks,
            chunk_i, cap_error, last_header, hook_log>>
rxvars == <<rxpc, data, audio_data, rx_tag, wrote, played>>

\* ------------------------------------------------------------- helpers
Min(a, b) == IF a < b THEN a ELSE b
Abs(x) == IF x < 0 THEN -x ELSE x
Frames(vals) == [1..FrameLen -> vals]
AllZero(f) == \A i \in 1..Len(f) : f[i] = 0
Zeros(n) == [i \in 1..n |-> 0]

\* Python slice s[a:b] with 0 <= a (0-based, end exclusive, clamped).
Slice(s, a, b) == SubSeq(s, a + 1, Min(b, Len(s)))

RECURSIVE Concat(_)
Concat(ss) == IF ss = <<>> THEN <<>> ELSE Head(ss) \o Concat(Tail(ss))

CeilDiv(a, b) == (a + b - 1) \div b

PeerTag == [src |-> "peer", idx |-> 0, n |-> 0, payload |-> <<>>]
NoTag == [src |-> "none", idx |-> 0, n |-> 0, payload |-> <<>>]


\* ------------------------------------------------ the transmit pipeline
\* transmit_stream.read(8192): the frames a successful read can return.
StreamRead == Frames(RawVals)

\* scipy.signal.lfilter(b, a, x) with the Butterworth band-pass: a linear
\* filter started at rest.  Its coefficients are not modelled; what is kept
\* is that the output has the input's length, that a zero input gives a zero
\* output, and that a non-zero input gives a non-zero output (b[0] # 0).
filter_frequencies(voice_data_) ==
    IF AllZero(voice_data_)
    THEN {voice_data_}
    ELSE {f \in [1..Len(voice_data_) -> FilteredVals] : ~AllZero(f)}

sample_voice(voice_data_) == voice_data_

\* np.round(n / d) for d > 0: round half to even.
RoundHalfEven(n, d) ==
    LET q == n \div d
        r == n - q * d
    IN  IF 2 * r < d THEN q
        ELSE IF 2 * r > d THEN q + 1
        ELSE IF q % 2 = 0 THEN q ELSE q + 1

Clip(x, lo, hi) == IF x < lo THEN lo ELSE IF x > hi THEN hi ELSE x

\* What a cast to int16 of a value outside int16 can do, depending on the
\* build: keep the low 16 bits, or saturate.
WideCasts == {"wrap", "saturate"}

\* ndarray.astype(np.int16) of an integral float: the value itself when it
\* fits; otherwise what the build's conversion does.
AsInt16(x) ==
    IF -32768 <= x /\ x <= 32767 THEN x
    ELSE IF wide_cast = "wrap" THEN ((x + 32768) % 65536) - 32768
    ELSE IF x < 0 THEN -32768 ELSE 32767

Peak(f) == CHOOSE m \in {Abs(f[i]) : i \in 1..Len(f)} :
               \A i \in 1..Len(f) : Abs(f[i]) <= m

\* Whether quantize_voice divides by a zero peak for this frame.
DividesByZero(sampled_data) == Peak(sampled_data) = 0

\* quantize_voice: x * max_val / peak, rounded, clipped, cast to int16.  With
\* a zero peak every quotient is 0.0 / 0.0 = NaN (numpy warns, does not
\* raise); round and clip keep NaN and the cast gives the build's nan_cast.
quantize_voice(sampled_data) ==
    LET max_val == 2 ^ (CONFIG.quantization_bits - 1) - 1
        peak == Peak(sampled_data)
    IN  [i \in 1..Len(sampled_data) |->
            IF peak = 0
            THEN nan_cast
            ELSE AsInt16(Clip(RoundHalfEven(sampled_data[i] * max_val, peak),
                              -max_val, max_val))]

\* Variant: one byte per sample.
PackH_onebyte(v) == LET u == v % 65536 IN <<u % 256>>

\* struct.pack('h', v): two bytes, two's complement, low byte first.
PackH(v) == LET u == v % 65536 IN <<u % 256, u \div 256>>

\* struct.pack(f'{n}h', *quantized_data): the packed samples one after the
\* other, in order.  The recursion halves the frame so that a frame of 8192
\* samples is packed at depth 13.
RECURSIVE encode_to_bytes(_)
encode_to_bytes(quantized_data) ==
    IF quantized_data = <<>> THEN <<>>
    ELSE IF Len(quantized_data) = 1 THEN PackH(quantized_data[1])
    ELSE LET h == Len(quantized_data) \div 2
         IN  encode_to_bytes(SubSeq(quantized_data, 1, h))
               \o encode_to_bytes(SubSeq(quantized_data, h + 1,
                                         Len(quantized_data)))

\* echo_cancellation and silence_suppression return their argument whatever
\* their toggle says; the toggle only switches what they print.
echo_cancellation(encoded_data) == encoded_data

echo_cancellation_prints ==
    IF CONFIG.echo_cancellation THEN <<"echo_cancellation">> ELSE <<>>

silence_suppression(encoded_data) == encoded_data

silence_suppression_prints ==
    IF CONFIG.silence_suppression THEN <<"silence_suppression">> ELSE <<>>

compress_voice_prints ==
    IF CONFIG.compression_enabled THEN <<"compress_voice">> ELSE <<>>

\* Variant: the downsampling is applied whatever the toggle says.
compress_voice_always(encoded_data) ==
    [k \in 1..((Len(encoded_data) + 1) \div 2) |-> encoded_data[2 * k - 1]]

\* encoded_data[::2]: the bytes at even 0-based offsets.
compress_voice(encoded_data) ==
    IF CONFIG.compression_enabled
    THEN [k \in 1..((Len(encoded_data) + 1) \div 2) |-> encoded_data[2 * k - 1]]
    ELSE encoded_data

\* Variant: the header is not prepended.
packetize_rtp_noheader(encoded_data) == encoded_data

packetize_rtp(encoded_data) == RTP_HEADER \o encoded_data

\* [rtp_packet[i:i + max_size] for i in range(0, len(rtp_packet), max_size)]
RECURSIVE ChunksFrom(_, _, _)
ChunksFrom(packet, i, max_size) ==
    IF i >= Len(packet) THEN <<>>
    ELSE <<Slice(packet, i, i + max_size)>>
         \o ChunksFrom(packet, i + max_size, max_size)

\* Variant: slices one byte shorter than the stride (rtp_packet[i:i+max_size-1]).
RECURSIVE ChunksShort(_, _, _)
ChunksShort(packet, i, max_size) ==
    IF i >= Len(packet) THEN <<>>
    ELSE <<Slice(packet, i, i + max_size - 1)>>
         \o ChunksShort(packet, i + max_size, max_size)

encapsulate_udp_short(rtp_packet_) ==
    ChunksShort(rtp_packet_, 0, CONFIG.max_udp_size)

encapsulate_udp(rtp_packet_) == ChunksFrom(rtp_packet_, 0, CONFIG.max_udp_size)

\* ------------------------------------------------------ the transmit cycle
\* The locals of voip_service are dead at the end of a loop pass (the next
\* pass assigns each before reading it); TxSleep empties them.

\* Variant: the read is not wrapped in try/except, so a read that raises ends
\* the thread.
capture_analog_voice_uncaught ==
    /\ txpc = "capturing"
    /\ \/ /\ voice_data' \in StreamRead
          /\ cap_error' = FALSE
          /\ txpc' = "conditioning"
       \/ /\ voice_data' = <<>>
          /\ cap_error' = TRUE
          /\ txpc' = "dead"
    /\ UNCHANGED <<CONFIG, nan_cast, wide_cast, compressed_data, rtp_packet, udp_chunks,
                   chunk_i, last_header, hook_log, inbox,
                   rxvars>>

\* capture_analog_voice: one read of the capture stream; a read that raises
\* is caught, reported ("Error capturing audio") and replaced by
\* np.zeros(8192, dtype=np.int16).
capture_analog_voice ==
    /\ txpc = "capturing"
    /\ \/ /\ voice_data' \in StreamRead
          /\ cap_error' = FALSE
       \/ /\ voice_data' = Zeros(FrameLen)
          /\ cap_error' = TRUE
    /\ txpc' = "conditioning"
    /\ UNCHANGED <<CONFIG, nan_cast, wide_cast, compressed_data, rtp_packet, udp_chunks,
                   chunk_i, last_header, hook_log, inbox,
                   rxvars>>

\* voice_data = filter_frequencies(voice_data); sampled_data = sample_voice(..)
TxCondition ==
    /\ txpc = "conditioning"
    /\ \E f \in filter_frequencies(voice_data) : voice_data' = sample_voice(f)
    /\ txpc' = "encoding"
    /\ UNCHANGED <<CONFIG, nan_cast, wide_cast, compressed_data, rtp_packet, udp_chunks,
                   chunk_i, cap_error, last_header, hook_log, inbox,
                   rxvars>>

\* Variant: the compression stage switches its own toggle on in CONFIG.
TxEncode_setsconfig ==
    /\ txpc = "encoding"
    /\ compressed_data' =
           compress_voice(silence_suppression(echo_cancellation(
               encode_to_bytes(quantize_voice(voice_data)))))
    /\ hook_log' = echo_cancellation_prints \o silence_suppression_prints
                        \o compress_voice_prints
    /\ CONFIG' = [CONFIG EXCEPT !.compression_enabled = TRUE]
    /\ txpc' = "packetizing"
    /\ UNCHANGED <<nan_cast, wide_cast, voice_data, rtp_packet, udp_chunks,
                   chunk_i, cap_error, last_header, inbox, rxvars>>

\* quantize_voice, encode_to_bytes, echo_cancellation, silence_suppression,
\* compress_voice, in the order voip_service calls them.
TxEncode ==
    /\ txpc = "encoding"
    /\ compressed_data' =
           compress_voice(silence_suppression(echo_cancellation(
               encode_to_bytes(quantize_voice(voice_data)))))
    /\ hook_log' = echo_cancellation_prints \o silence_suppression_prints
                        \o compress_voice_prints
    /\ txpc' = "packetizing"
    /\ UNCHANGED <<CONFIG, nan_cast, wide_cast, voice_data, rtp_packet, udp_chunks,
                   chunk_i, cap_error, last_header, inbox, rxvars>>

\* Variant: the packet is also stored in a module-level name the receiver
\* uses for its datagram.
TxPacketize_shared ==
    /\ txpc = "packetizing"
    /\ rtp_packet' = packetize_rtp(compressed_data)
    /\ udp_chunks' = encapsulate_udp(rtp_packet')
    /\ chunk_i' = 1
    /\ txpc' = "sending"
    /\ data' = rtp_packet'
    /\ UNCHANGED <<CONFIG, nan_cast, wide_cast, voice_data, compressed_data,
                   cap_error, last_header, hook_log, inbox, rxpc, audio_data,
                   rx_tag, wrote, played>>

\* rtp_packet = packetize_rtp(compressed_data); udp_chunks = encapsulate_udp(..)
TxPacketize ==
    /\ txpc = "packetizing"
    /\ rtp_packet' = packetize_rtp(compressed_data)
    /\ udp_chunks' = encapsulate_udp(rtp_packet')
    /\ chunk_i' = 1
    /\ txpc' = "sending"
    /\ UNCHANGED <<CONFIG, nan_cast, wide_cast, voice_data, compressed_data, cap_error,
                   last_header, hook_log, inbox,
                   rxvars>>

\* The datagram sock.sendto hands to the transport for the chunk at chunk_i.
\* The tag is bookkeeping: which chunk of which payload the bytes are.
Datagram(chunk) ==
    [data |-> chunk,
     addr |-> <<CONFIG.udp_ip, CONFIG.udp_port>>,
     tag |-> [src |-> "tx", idx |-> chunk_i, n |-> Len(udp_chunks),
              payload |-> compressed_data]]

\* The receiver's socket is bound to udp_port from bind until its thread ends.
Bound == rxpc \in {"waiting", "deheadering", "playing"}

\* Addresses of this host: a socket bound to 0.0.0.0 receives on all of them.
LocalIps == {"127.0.0.1"}

\* The port voip_receiver binds: sock.bind(("0.0.0.0", CONFIG['udp_port'])).
BoundPort == CONFIG.udp_port

\* A datagram sent to (udp_ip, udp_port) reaches the socket the receiver
\* bound when the address is this host's and the port is the bound one, or is
\* lost (UDP; no socket bound yet; buffer full; another destination).
Deliver(dgram) ==
    \/ /\ Bound
       /\ dgram.addr[1] \in LocalIps
       /\ dgram.addr[2] = BoundPort
       /\ Len(inbox) < MaxInbox
       /\ inbox' = Append(inbox, dgram)
    \/ inbox' = inbox

\* Variant: the loop pass does not sleep; after the last chunk it captures
\* again at once.
transmit_voice_nosleep ==
    /\ txpc = "sending"
    /\ \/ /\ chunk_i <= Len(udp_chunks)
          /\ Deliver(Datagram(udp_chunks[chunk_i]))
          /\ chunk_i' = chunk_i + 1
          /\ txpc' = txpc
       \/ /\ chunk_i <= Len(udp_chunks)
          /\ txpc' = "dead"
          /\ UNCHANGED <<chunk_i, inbox>>
       \/ /\ chunk_i > Len(udp_chunks)
          /\ txpc' = "capturing"
          /\ UNCHANGED <<chunk_i, inbox>>
    /\ UNCHANGED <<CONFIG, nan_cast, wide_cast, voice_data, compressed_data,
                   rtp_packet, udp_chunks, cap_error, last_header, hook_log,
                   rxvars>>

\* Variant: the socket is closed inside the for loop, so the function returns
\* after the first chunk.
transmit_voice_early ==
    /\ txpc = "sending"
    /\ \/ /\ chunk_i <= Len(udp_chunks)
          /\ Deliver(Datagram(udp_chunks[chunk_i]))
          /\ chunk_i' = chunk_i + 1
          /\ txpc' = "sleeping"
       \/ /\ chunk_i <= Len(udp_chunks)
          /\ txpc' = "dead"
          /\ UNCHANGED <<chunk_i, inbox>>
    /\ UNCHANGED <<CONFIG, nan_cast, wide_cast, voice_data, compressed_data,
                   rtp_packet, udp_chunks, cap_error, last_header, hook_log,
                   rxvars>>

\* transmit_voice: the for loop over udp_chunks, one sendto per step; a sendto
\* that raises is not caught anywhere and ends the voip_service thread.
transmit_voice ==
    /\ txpc = "sending"
    /\ \/ /\ chunk_i <= Len(udp_chunks)
          /\ Deliver(Datagram(udp_chunks[chunk_i]))
          /\ chunk_i' = chunk_i + 1
          /\ txpc' = txpc
       \/ /\ chunk_i <= Len(udp_chunks)
          /\ txpc' = "dead"
          /\ UNCHANGED <<chunk_i, inbox>>
       \/ /\ chunk_i > Len(udp_chunks)
          /\ txpc' = "sleeping"
          /\ UNCHANGED <<chunk_i, inbox>>
    /\ UNCHANGED <<CONFIG, nan_cast, wide_cast, voice_data, compressed_data, rtp_packet,
                   udp_chunks, cap_error, last_header, hook_log, rxvars>>

\* time.sleep(CONFIG['packet_interval']), then the next loop pass.
TxSleep ==
    /\ txpc = "sleeping"
    /\ txpc' = "capturing"
    /\ last_header' = Slice(rtp_packet, 0, HeaderLen)
    /\ voice_data' = <<>>
    /\ compressed_data' = <<>>
    /\ rtp_packet' = <<>>
    /\ udp_chunks' = <<>>
    /\ chunk_i' = 1
    /\ cap_error' = FALSE
    /\ hook_log' = <<>>
    /\ UNCHANGED <<CONFIG, nan_cast, wide_cast, inbox, rxvars>>

voip_service ==
    \/ capture_analog_voice
    \/ TxCondition
    \/ TxEncode
    \/ TxPacketize
    \/ transmit_voice
    \/ TxSleep

\* ------------------------------------------------------- the receive cycle
\* The locals of voip_receiver are dead once play_audio has returned.

\* sock.bind(("0.0.0.0", udp_port)); a bind that raises ends the thread
\* before its loop starts.
RxBind ==
    /\ rxpc = "start"
    /\ rxpc' \in {"waiting", "bind_failed"}
    /\ UNCHANGED <<CONFIG, nan_cast, wide_cast, txvars, inbox, data, audio_data, rx_tag,
                   wrote, played>>

\* Variant: a receive buffer one byte smaller than asked for.
recvfrom_small(bufsize) == Slice(Head(inbox).data, 0, bufsize - 1)

\* sock.recvfrom(bufsize): the next queued datagram, cut to bufsize bytes.
recvfrom(bufsize) == Slice(Head(inbox).data, 0, bufsize)

\* data, addr = sock.recvfrom(CONFIG['max_udp_size']); blocks while nothing is
\* queued; a recvfrom that raises is not caught and ends the thread, which
\* closes its socket.
RxReceive ==
    /\ rxpc = "waiting"
    /\ \/ /\ inbox # <<>>
          /\ data' = recvfrom(CONFIG.max_udp_size)
          /\ rx_tag' = Head(inbox).tag
          /\ inbox' = Tail(inbox)
          /\ wrote' = "none"
          /\ rxpc' = "deheadering"
       \/ /\ rxpc' = "dead"
          /\ inbox' = <<>>
          /\ UNCHANGED <<data, rx_tag, wrote>>
    /\ UNCHANGED <<CONFIG, nan_cast, wide_cast, txvars, audio_data, played>>

\* Variant: a fixed 12-byte strip instead of the header's length.
RxDeheader_strip12 ==
    /\ rxpc = "deheadering"
    /\ audio_data' = Slice(data, 12, Len(data))
    /\ rxpc' = "playing"
    /\ UNCHANGED <<CONFIG, nan_cast, wide_cast, txvars, inbox, data, rx_tag,
                   wrote, played>>

\* audio_data = data[len(b'RTP_HEADER'):]
RxDeheader ==
    /\ rxpc = "deheadering"
    /\ audio_data' = Slice(data, HeaderLen, Len(data))
    /\ rxpc' = "playing"
    /\ UNCHANGED <<CONFIG, nan_cast, wide_cast, txvars, inbox, data, rx_tag, wrote,
                   played>>

NoRun == [payload |-> <<>>, n |-> 0, writes |-> <<>>]

\* Bookkeeping of what was handed to the playback stream: the writes made for
\* chunks 1, 2, ... of one payload, received one after the other.
PlayedAfter(bytes) ==
    IF rx_tag.src = "tx" /\ rx_tag.idx = 1
    THEN [payload |-> rx_tag.payload, n |-> rx_tag.n, writes |-> <<bytes>>]
    ELSE IF /\ rx_tag.src = "tx"
            /\ rx_tag.idx = Len(played.writes) + 1
            /\ rx_tag.payload = played.payload
            /\ rx_tag.n = played.n
         THEN [played EXCEPT !.writes = Append(@, bytes)]
         ELSE NoRun

\* Variant: the write is not wrapped in try/except, so a write that raises
\* ends the thread.
play_audio_uncaught ==
    /\ rxpc = "playing"
    /\ played' = PlayedAfter(audio_data)
    /\ \/ /\ wrote' = "ok"
          /\ rxpc' = "waiting"
          /\ inbox' = inbox
       \/ /\ wrote' = "fail"
          /\ rxpc' = "dead"
          /\ inbox' = <<>>
    /\ data' = <<>>
    /\ audio_data' = <<>>
    /\ rx_tag' = NoTag
    /\ UNCHANGED <<CONFIG, nan_cast, wide_cast, txvars>>

\* play_audio: receive_stream.write(audio_data) inside try/except; a write
\* that raises is caught and reported ("Error playing audio") and play_audio
\* returns normally, to the top of voip_receiver's loop.
play_audio ==
    /\ rxpc = "playing"
    /\ played' = PlayedAfter(audio_data)
    /\ wrote' \in {"ok", "fail"}
    /\ rxpc' = "waiting"
    /\ data' = <<>>
    /\ audio_data' = <<>>
    /\ rx_tag' = NoTag
    /\ UNCHANGED <<CONFIG, nan_cast, wide_cast, txvars, inbox>>

voip_receiver ==
    \/ RxBind
    \/ RxReceive
    \/ RxDeheader
    \/ play_audio

\* ------------------------------------------------------------ environment
\* Another host sends a datagram to the receiver's port.
PeerSend ==
    /\ Bound
    /\ Len(inbox) < MaxInbox
    /\ \E d \in PeerDatagrams :
           inbox' = Append(inbox, [data |-> d,
                                   addr |-> <<"127.0.0.1", BoundPort>>,
                                   tag |-> PeerTag])
    /\ UNCHANGED <<CONFIG, nan_cast, wide_cast, txvars, rxvars>>

\* ---------------------------------------------------------- specification
\* The state after the module's top level has run: both threads started,
\* neither has taken a step.  With quantization_bits = 16 the clip keeps every
\* value inside int16, so wide_cast is never consulted and is fixed here.
InitRest ==
    /\ rtp_packet = <<>>
    /\ udp_chunks = <<>>
    /\ chunk_i = 1
    /\ cap_error = FALSE
    /\ last_header = <<>>
    /\ hook_log = <<>>
    /\ inbox = <<>>
    /\ rxpc = "start"
    /\ data = <<>>
    /\ audio_data = <<>>
    /\ rx_tag = NoTag
    /\ wrote = "none"
    /\ played = NoRun

InitState ==
    /\ nan_cast \in NaNCasts
    /\ wide_cast = "wrap"
    /\ txpc = "capturing"
    /\ voice_data = <<>>
    /\ compressed_data = <<>>
    /\ InitRest

Init ==
    /\ CONFIG \in [quantization_bits : {16},
                   compression_enabled : {FALSE},
                   echo_cancellation : {TRUE},
                   silence_suppression : {FALSE},
                   udp_ip : {"127.0.0.1"},
                   udp_port : {5060},
                   max_udp_size : MaxUdpSizes]
    /\ InitState

Next == voip_service \/ voip_receiver \/ PeerSend

Spec == Init /\ [][Next]_vars

\* The transmit thread on its own (the receiver thread not yet scheduled),
\* over a wider range of configurations.
InitTx ==
    /\ CONFIG \in [quantization_bits : {16},
                   compression_enabled : BOOLEAN,
                   echo_cancellation : BOOLEAN,
                   silence_suppression : BOOLEAN,
                   udp_ip : {"127.0.0.1"},
                   udp_port : {5060},
                   max_udp_size : MaxUdpSizesTx]
    /\ InitState

SpecTx == InitTx /\ [][voip_service]_vars

\* The program at its own sizes: transmit_stream.read(8192) gives a frame of
\* 8192 samples, zeros(8192) on a capture error, and filtering keeps the
\* length; CONFIG is the literal of the source.  The frame contents are a
\* small family of periodic signals plus the silent frame.
ReadFrames == 8192
FullFrameKinds == 2

FullFrames ==
    {Zeros(ReadFrames)} \cup
    {[i \in 1..ReadFrames |-> ((i * k) % 7) - 3] : k \in 1..FullFrameKinds}

InitFull ==
    /\ CONFIG = [quantization_bits |-> 16,
                 compression_enabled |-> FALSE,
                 echo_cancellation |-> TRUE,
                 silence_suppression |-> FALSE,
                 udp_ip |-> "127.0.0.1",
                 udp_port |-> 5060,
                 max_udp_size |-> 1472]
    /\ nan_cast \in NaNCasts
    /\ wide_cast = "wrap"
    /\ txpc = "encoding"
    /\ voice_data \in FullFrames
    /\ compressed_data = <<>>
    /\ InitRest

NextFull == TxEncode \/ TxPacketize \/ transmit_voice \/ TxSleep

SpecFull == InitFull /\ [][NextFull]_vars

\* quantize_voice and encode_to_bytes over the values quantization_bits can
\* be configured to and over signed frames of more than one sample, under
\* either behaviour of the build's out-of-range cast.
QuantBits == {8, 16, 24}
QuantVals == {-2, -1, 0, 1, 2}

InitQuant ==
    /\ CONFIG \in [quantization_bits : QuantBits,
                   compression_enabled : {FALSE},
                   echo_cancellation : {TRUE},
                   silence_suppression : {FALSE},
                   udp_ip : {"127.0.0.1"},
                   udp_port : {5060},
                   max_udp_size : {1472}]
    /\ nan_cast \in NaNCasts
    /\ wide_cast \in WideCasts
    /\ txpc = "encoding"
    /\ voice_data \in [1..(FrameLen + 1) -> QuantVals]
    /\ compressed_data = <<>>
    /\ InitRest

SpecQuant == InitQuant /\ [][NextFull]_vars

\* packetize_rtp and encapsulate_udp applied to any payload, the empty one
\* included (the pipeline itself never produces an empty payload), then the
\* chunks sent.
PktPayloads == UNION {[1..n -> {0, 255}] : n \in 0..(2 * FrameLen)}

InitPkt ==
    /\ CONFIG \in [quantization_bits : {16},
                   compression_enabled : {FALSE},
                   echo_cancellation : {TRUE},
                   silence_suppression : {FALSE},
                   udp_ip : {"127.0.0.1"},
                   udp_port : {5060},
                   max_udp_size : MaxUdpSizesTx]
    /\ nan_cast \in NaNCasts
    /\ wide_cast = "wrap"
    /\ txpc = "packetizing"
    /\ voice_data = <<>>
    /\ compressed_data \in PktPayloads
    /\ InitRest

NextPkt == TxPacketize \/ transmit_voice \/ TxSleep

SpecPkt == InitPkt /\ [][NextPkt]_vars


\* ------------------------------------------------------------------ claims
\* The sequence field of a header: the four bytes after the type/version and
\* payload-type bytes.
SeqField(header) == SubSeq(header, 3, 6)

\* A big-endian byte string plus one, wrapping to all zeros.
RECURSIVE Inc(_)
Inc(bytes) ==
    IF bytes = <<>> THEN <<>>
    ELSE LET n == Len(bytes)
             front == SubSeq(bytes, 1, n - 1)
         IN  IF bytes[n] < 255
             THEN Append(front, bytes[n] + 1)
             ELSE Append(Inc(front), 0)

\* C1: the sequence number in the header of each packet built is the one of
\* the packet built by the previous loop pass plus 1, modulo 2^32.
C1_SequenceAdvances ==
    [][(txpc = "packetizing" /\ txpc' = "sending" /\ last_header # <<>>)
        => SeqField(Slice(rtp_packet', 0, HeaderLen)) = Inc(SeqField(last_header))]_vars

\* C2: the chunks encapsulate_udp returns, concatenated in order, are the
\* packet, and there are ceil(len(packet) / max_udp_size) of them.
C2_ChunkRoundTrip ==
    /\ Concat(udp_chunks) = rtp_packet
    /\ Len(udp_chunks) = CeilDiv(Len(rtp_packet), CONFIG.max_udp_size)

\* A packet split unevenly into two chunks is being sent.
C2_Witness ==
    /\ txpc = "sending"
    /\ Len(udp_chunks) = 2
    /\ Len(udp_chunks[2]) < Len(udp_chunks[1])

\* C3: once every chunk of a packet has been received in order and handed to
\* playback, the bytes handed over, concatenated, are the packet's payload.
C3_EndToEnd ==
    (played.n > 0 /\ Len(played.writes) = played.n)
        => Concat(played.writes) = played.payload

\* C4: a sendto that raises does not end the transmit cycle.
C4_SendFailureContained == txpc # "dead"

\* C5: for a datagram shorter than the header no playback write is made.
C5_ShortDatagramDiscarded ==
    [][(rxpc = "playing" /\ Len(data) < HeaderLen) => wrote' = "none"]_vars

\* C6: after a failed capture read the frame is all zeros and of the length
\* of a successful read, and the loop pass goes on through conditioning,
\* encoding and packetizing to sending; the thread does not end before a
\* chunk is being sent.
C6_CaptureFailureDegrades ==
    cap_error =>
        /\ Len(voice_data) = FrameLen
        /\ txpc = "conditioning" => voice_data = Zeros(FrameLen)
        /\ txpc \in {"conditioning", "encoding", "packetizing", "sending",
                     "sleeping", "dead"}
        /\ txpc = "dead" => (udp_chunks # <<>> /\ chunk_i <= Len(udp_chunks))

\* A loop pass whose capture failed has sent all its chunks.
C6_Witness ==
    /\ cap_error
    /\ txpc = "sleeping"
    /\ chunk_i = Len(udp_chunks) + 1

\* C7: play_audio always returns to the top of the receive loop, whether the
\* write succeeded or raised.
C7_PlaybackFailureContained ==
    [][(rxpc = "playing" /\ rxpc' # "playing")
        => (rxpc' = "waiting" /\ wrote' \in {"ok", "fail"})]_vars

\* A write has failed and the receiver is waiting again with a datagram queued.
C7_Witness ==
    /\ wrote = "fail"
    /\ rxpc = "waiting"
    /\ inbox # <<>>

\* C8: a recvfrom that raises does not end the receive cycle.
C8_RecvFailureContained == rxpc # "dead"

\* C9: quantizing an all-zero frame divides by no zero and gives an all-zero
\* frame of the same length.
C9_SilenceSafe ==
    (txpc = "packetizing" /\ AllZero(voice_data))
        => /\ ~DividesByZero(voice_data)
           /\ quantize_voice(voice_data) = Zeros(Len(voice_data))

\* The slice of the packet with this payload that chunk number idx holds.
ChunkOf(payload, idx) ==
    Slice(RTP_HEADER \o payload, (idx - 1) * CONFIG.max_udp_size,
          idx * CONFIG.max_udp_size)

C10_State ==
    /\ \A k \in 1..Len(udp_chunks) :
          /\ udp_chunks[k] # <<>>
          /\ Len(udp_chunks[k]) <= CONFIG.max_udp_size
          /\ k < Len(udp_chunks) => Len(udp_chunks[k]) = CONFIG.max_udp_size
          /\ udp_chunks[k] = ChunkOf(compressed_data, k)
    /\ \A i \in 1..Len(inbox) :
          inbox[i].tag.src = "tx" =>
              /\ inbox[i].data # <<>>
              /\ Len(inbox[i].data) <= CONFIG.max_udp_size
              /\ inbox[i].data = ChunkOf(inbox[i].tag.payload, inbox[i].tag.idx)
    /\ (rx_tag.src = "tx" /\ rxpc \in {"deheadering", "playing"})
          => data = ChunkOf(rx_tag.payload, rx_tag.idx)

C10_Step ==
    (txpc = "sending" /\ chunk_i' # chunk_i) =>
        /\ chunk_i' = chunk_i + 1
        /\ inbox' # inbox => inbox'[Len(inbox')].data = udp_chunks[chunk_i]

\* C10: every chunk sent is a non-empty slice of the packet of at most
\* max_udp_size bytes, only the last may be shorter, chunks are sent in
\* packet order, and the receiver reads each chunk whole.
C10_ChunksWellFormed == []C10_State /\ [][C10_Step]_vars

\* The receiver holds a full-size first chunk of a packet sent in two chunks.
C10_Witness ==
    /\ rxpc = "playing"
    /\ rx_tag.src = "tx"
    /\ rx_tag.n = 2
    /\ rx_tag.idx = 1
    /\ Len(data) = CONFIG.max_udp_size


\* C11: packetizing and chunking always gives at least one chunk, and for an
\* empty payload exactly one, the header alone.
C11_NeverZeroChunks ==
    txpc \in {"sending", "sleeping"} =>
        /\ Len(udp_chunks) >= 1
        /\ compressed_data = <<>> => udp_chunks = <<RTP_HEADER>>

\* The empty payload has been packetized into the one header-only chunk.
C11_Witness ==
    /\ txpc = "sending"
    /\ compressed_data = <<>>
    /\ udp_chunks = <<RTP_HEADER>>


\* C12: for a packet that fits one datagram the receiver hands playback
\* exactly the payload, in one write: the strip is as wide as the header.
C12_StripMatchesHeader ==
    /\ (/\ rxpc = "playing"
        /\ rx_tag.src = "tx"
        /\ HeaderLen + Len(rx_tag.payload) <= CONFIG.max_udp_size)
          => audio_data = rx_tag.payload
    /\ (/\ played.n > 0
        /\ HeaderLen + Len(played.payload) <= CONFIG.max_udp_size)
          => played.writes = <<played.payload>>

\* A one-datagram packet has been written to playback.
C12_Witness ==
    /\ rxpc = "waiting"
    /\ wrote = "ok"
    /\ played.n = 1
    /\ played.payload # <<>>
    /\ HeaderLen + Len(played.payload) <= CONFIG.max_udp_size
    /\ played.writes = <<played.payload>>


\* The stage a stage of the transmit loop is entered from.
StageBefore(stage) ==
    CASE stage = "conditioning" -> "capturing"
      [] stage = "encoding" -> "conditioning"
      [] stage = "packetizing" -> "encoding"
      [] stage = "sending" -> "packetizing"
      [] stage = "sleeping" -> "sending"
      [] stage = "capturing" -> "sleeping"

\* C13: the transmit loop enters each stage from the one before it in the
\* order capture, condition, encode, packetize, send, sleep; it sleeps only
\* once every chunk of the packet has been handed to sendto, and captures
\* again only out of the sleep.
C13_StagesSequential ==
    [][(txpc' # txpc /\ txpc' # "dead") =>
          /\ txpc = StageBefore(txpc')
          /\ txpc' = "sleeping" =>
                (udp_chunks # <<>> /\ chunk_i = Len(udp_chunks) + 1)]_vars

\* A second loop pass has started.
C13_Witness ==
    /\ txpc = "capturing"
    /\ last_header # <<>>


\* The destination CONFIG names.
Destination == <<CONFIG.udp_ip, CONFIG.udp_port>>

C14_State ==
    /\ txpc \in {"sending", "sleeping"} =>
          /\ Len(voice_data) = FrameLen
          /\ rtp_packet = packetize_rtp(compressed_data)
          /\ udp_chunks = encapsulate_udp(rtp_packet)
    /\ txpc = "sleeping" => chunk_i = Len(udp_chunks) + 1
    /\ \A i \in 1..Len(inbox) :
          inbox[i].tag.src = "tx" => inbox[i].addr = Destination

C14_Step ==
    (txpc = "sending" /\ txpc' = "sending") =>
        /\ UNCHANGED <<voice_data, compressed_data, rtp_packet, udp_chunks>>
        /\ chunk_i' \in {chunk_i, chunk_i + 1}
        /\ (chunk_i' # chunk_i /\ inbox' # inbox) =>
              /\ inbox'[Len(inbox')].tag.idx = chunk_i
              /\ inbox'[Len(inbox')].tag.payload = compressed_data
              /\ inbox'[Len(inbox')].addr = Destination

\* C14: a loop pass that reaches its sleep has read one frame, built one
\* packet from it and handed each of its chunks to sendto once, in order,
\* addressed to (udp_ip, udp_port); the packet and its chunks do not change
\* while they are being sent.
C14_OnePacketPerPass == []C14_State /\ [][C14_Step]_vars

\* Both chunks of a two-chunk packet have been sent.
C14_Witness ==
    /\ txpc = "sleeping"
    /\ Len(udp_chunks) = 2
    /\ chunk_i = 3


\* A step in which transmit_stream.read is called.
ReadsCapture == txpc = "capturing" /\ txpc' # "capturing"

\* A step in which receive_stream.write is called.
WritesPlayback == rxpc = "playing" /\ rxpc' # "playing"

\* C15: a step that reads the capture stream is a step of the transmit
\* thread alone, a step that writes the playback stream is a step of the
\* receive thread alone, no step does both, and no step changes CONFIG.
C15_HandlesAndConfig ==
    [][/\ CONFIG' = CONFIG
       /\ ReadsCapture => UNCHANGED rxvars
       /\ WritesPlayback => UNCHANGED txvars
       /\ ~(ReadsCapture /\ WritesPlayback)]_vars

\* The transmit thread is about to read the capture stream while the receive
\* thread is about to write the playback stream.
C15_Witness ==
    /\ txpc = "capturing"
    /\ rxpc = "playing"


\* C16 as stated: the receiver never holds a datagram the transmit thread of
\* the same process sent.
C16_NeverReceivesOwn == rx_tag.src # "tx"

C16_State ==
    \A i \in 1..Len(inbox) :
        inbox[i].tag.src = "tx" =>
            /\ inbox[i].addr[1] \in LocalIps
            /\ inbox[i].addr[2] = BoundPort

C16_Step ==
    /\ txvars' # txvars => UNCHANGED rxvars
    /\ rxvars' # rxvars => UNCHANGED txvars
    /\ (rx_tag' # rx_tag /\ rx_tag'.src = "tx") =>
          (inbox # <<>> /\ Head(inbox).tag = rx_tag' /\ inbox' = Tail(inbox))

\* C16, amended: the two threads do not communicate directly: no step of one
\* changes a variable of the other, and what the receiver gets from the
\* transmit thread it gets as a datagram that was addressed to this host and
\* the bound port and queued at its socket.
C16_OnlyThroughTransport == []C16_State /\ [][C16_Step]_vars

\* The receiver is about to play bytes its own process's transmit thread sent.
C16_Witness ==
    /\ rxpc = "playing"
    /\ rx_tag.src = "tx"
    /\ audio_data # <<>>


HookOrder == <<"echo_cancellation", "silence_suppression", "compress_voice">>

HookEnabled(h) ==
    IF h = "echo_cancellation" THEN CONFIG.echo_cancellation
    ELSE IF h = "silence_suppression" THEN CONFIG.silence_suppression
    ELSE CONFIG.compression_enabled

\* C17: the hooks that act on one frame are exactly the enabled ones, in the
\* order echo cancellation, silence suppression, compression; with
\* compression off the payload handed to the packetizer is the encoder's
\* output byte for byte (the other two hooks return their input whatever
\* their toggle says), and with it on the payload is every second byte of it.
C17_HooksInOrder ==
    txpc = "packetizing" =>
        LET encoded_data == encode_to_bytes(quantize_voice(voice_data))
        IN  /\ hook_log = SelectSeq(HookOrder, HookEnabled)
            /\ ~CONFIG.compression_enabled => compressed_data = encoded_data
            /\ CONFIG.compression_enabled =>
                  /\ Len(compressed_data) = (Len(encoded_data) + 1) \div 2
                  /\ \A k \in 1..Len(compressed_data) :
                         compressed_data[k] = encoded_data[2 * k - 1]

\* A frame has been encoded with all three toggles off.
C17_Witness ==
    /\ txpc = "packetizing"
    /\ ~CONFIG.echo_cancellation
    /\ ~CONFIG.silence_suppression
    /\ ~CONFIG.compression_enabled
    /\ hook_log = <<>>
    /\ compressed_data # <<>>


UnpackH(lo, hi) ==
    LET u == lo + 256 * hi IN IF u >= 32768 THEN u - 65536 ELSE u

\* The quantized frame as it is stored in the encoded payload.
StoredSamples ==
    [i \in 1..(Len(compressed_data) \div 2) |->
        UnpackH(compressed_data[2 * i - 1], compressed_data[2 * i])]

\* C19: for every quantization_bits b and every frame with a non-zero peak,
\* the quantized frame has the frame's length, every sample of it lies
\* within -(2^(b-1)-1) .. 2^(b-1)-1, and a sample of peak magnitude has
\* magnitude exactly 2^(b-1)-1 (so nothing is lost to the 16-bit storage).
C19_QuantizeInRange ==
    (txpc = "packetizing" /\ ~DividesByZero(voice_data)) =>
        LET max_val == 2 ^ (CONFIG.quantization_bits - 1) - 1
            q == StoredSamples
        IN  /\ Len(q) = Len(voice_data)
            /\ q = quantize_voice(voice_data)
            /\ \A i \in 1..Len(q) :
                  /\ -max_val <= q[i] /\ q[i] <= max_val
                  /\ Abs(voice_data[i]) = Peak(voice_data)
                        => Abs(q[i]) = max_val

=============================================================================
